---- MODULE Spec2Model ----
(***************************************************************************)
(* Model of catpng-rs (src/src/main.rs): the PNG chunk codec, the IHDR     *)
(* layout, the concatenation fold `catpng`, `write_png`, and the two       *)
(* callers of catpng (`main` and the test helper `catpng_and_write`).      *)
(*                                                                         *)
(* Bytes are integers 0..255 and byte streams are sequences of bytes.      *)
(* A u32 is kept at its width as the pair <<hi, lo>> of its two 16-bit     *)
(* halves, so that 0xFFFFFFFF and the overflow of `+=` are representable.  *)
(***************************************************************************)
EXTENDS Integers, Sequences, FiniteSets, TLC

\* ------------------------------------------------------------------------
\* Bounds of the model
\* ------------------------------------------------------------------------
MaxInputs == 2

\* ------------------------------------------------------------------------
\* u32 values and their big-endian encoding (byteorder::BigEndian)
\* ------------------------------------------------------------------------
Half == 65536

U32(n) == <<n \div Half, n % Half>>

U32Bytes(w) == <<w[1] \div 256, w[1] % 256, w[2] \div 256, w[2] % 256>>

BytesU32(b) == <<b[1] * 256 + b[2], b[3] * 256 + b[4]>>

\* `length as usize`: the model only meets lengths below 2^31
U32ToNat(w) == w[1] * Half + w[2]

\* u32 `+` at its width: the wrapped sum and whether it overflowed
U32AddWrap(a, b) ==
    LET lo == a[2] + b[2]
        hi == a[1] + b[1] + (lo \div Half)
    IN  <<hi % Half, lo % Half>>

U32AddOverflows(a, b) ==
    LET lo == a[2] + b[2]
        hi == a[1] + b[1] + (lo \div Half)
    IN  hi >= Half

\* the exact arithmetic sum, as an unbounded <<hi, lo>> (hi may exceed 16 bits)
ExactAdd(a, b) ==
    LET lo == a[2] + b[2]
    IN  <<a[1] + b[1] + (lo \div Half), lo % Half>>

\* ------------------------------------------------------------------------
\* CRC-32 (crc32fast::Hasher): the reflected IEEE polynomial 0xEDB88320,
\* on a 32-bit register kept as <<hi, lo>>
\* ------------------------------------------------------------------------
RECURSIVE Xor(_, _)
Xor(a, b) ==
    IF a = 0 THEN b
    ELSE IF b = 0 THEN a
    ELSE ((a + b) % 2) + 2 * Xor(a \div 2, b \div 2)

\* 0xEDB8 and 0x8320
CrcPolyHi == 60856
CrcPolyLo == 33568

\* one shift of the register
CrcBit(c) ==
    LET hi == c[1] \div 2
        lo == (c[2] \div 2) + (c[1] % 2) * 32768
    IN  IF c[2] % 2 = 1 THEN <<Xor(hi, CrcPolyHi), Xor(lo, CrcPolyLo)>> ELSE <<hi, lo>>

RECURSIVE CrcShift(_, _)
CrcShift(c, n) ==
    IF n = 0 THEN c
    ELSE LET d == CrcBit(c) IN IF d[1] >= 0 THEN CrcShift(d, n - 1) ELSE d

RECURSIVE CrcUpdate(_, _, _)
CrcUpdate(c, s, i) ==
    IF i > Len(s) THEN c
    ELSE LET d == CrcShift(<<c[1], Xor(c[2], s[i])>>, 8)
         IN  IF d[1] >= 0 THEN CrcUpdate(d, s, i + 1) ELSE d

\* the big-endian bytes of hasher.finalize() after update(s)
Crc32Bytes(s) ==
    LET c == CrcUpdate(<<Half - 1, Half - 1>>, s, 1)
    IN  U32Bytes(<<Half - 1 - c[1], Half - 1 - c[2]>>)

\* ------------------------------------------------------------------------
\* zlib (miniz_oxide).  The deflate body is modelled by its stored-block
\* form: one final stored block, LEN / NLEN, the raw bytes, then Adler-32.
\* The two header bytes carry the level class, as miniz_oxide writes them.
\* ------------------------------------------------------------------------
AdlerMod == 65521

RECURSIVE AdlerA(_, _)
AdlerA(s, n) == IF n = 0 THEN 1 ELSE (AdlerA(s, n - 1) + s[n]) % AdlerMod

RECURSIVE AdlerB(_, _)
AdlerB(s, n) == IF n = 0 THEN 0 ELSE (AdlerB(s, n - 1) + AdlerA(s, n)) % AdlerMod

Adler32Bytes(s) ==
    LET a == AdlerA(s, Len(s))
        b == AdlerB(s, Len(s))
    IN  <<b \div 256, b % 256, a \div 256, a % 256>>

\* levels above 10 are clamped to 10 by the library
ZlibFlg(level) ==
    LET l == IF level > 10 THEN 10 ELSE level
    IN  IF l <= 1 THEN 1 ELSE IF l <= 5 THEN 94 ELSE IF l = 6 THEN 156 ELSE 218

compress_to_vec_zlib(data, level) ==
    LET n == Len(data)
    IN  <<120, ZlibFlg(level)>>
        \o <<1, n % 256, n \div 256, 255 - (n % 256), 255 - (n \div 256)>>
        \o data
        \o Adler32Bytes(data)

\* [ok, data]: ok = FALSE is DecompressError
decompress_to_vec_zlib(z) ==
    LET bad == [ok |-> FALSE, data |-> <<>>]
    IN  IF Len(z) < 7 THEN bad
        ELSE IF z[1] # 120 \/ (z[1] * 256 + z[2]) % 31 # 0 \/ (z[2] \div 32) % 2 = 1
             THEN bad
        ELSE IF z[3] # 1 THEN bad
        ELSE IF z[4] + z[6] # 255 \/ z[5] + z[7] # 255 THEN bad
        ELSE LET n == z[4] + 256 * z[5]
             IN  IF Len(z) < 7 + n + 4 THEN bad
                 ELSE LET d == SubSeq(z, 8, 7 + n)
                      IN  IF SubSeq(z, 8 + n, 11 + n) # Adler32Bytes(d) THEN bad
                          ELSE [ok |-> TRUE, data |-> d]

\* ------------------------------------------------------------------------
\* Chunk kinds and type codes
\* ------------------------------------------------------------------------
PNG_SIGNATURE == <<137, 80, 78, 71, 13, 10, 26, 10>>

IHDR == <<73, 72, 68, 82>>
IDAT == <<73, 68, 65, 84>>
IEND == <<73, 69, 78, 68>>

\* a match without the IEND arm
KindOfCodeWithoutIend(code) ==
    IF code = IHDR THEN "Ihdr"
    ELSE IF code = IDAT THEN "Idat"
    ELSE "None"

\* TryFrom<&[u8; 4]> for PngChunkKind: "None" is UnsupportedTypeCode
KindOfCode(code) ==
    IF code = IHDR THEN "Ihdr"
    ELSE IF code = IDAT THEN "Idat"
    ELSE IF code = IEND THEN "Iend"
    ELSE "None"

\* From<PngChunkKind> for &[u8; 4]
CodeOfKind(kind) ==
    IF kind = "Ihdr" THEN IHDR ELSE IF kind = "Idat" THEN IDAT ELSE IEND

\* ------------------------------------------------------------------------
\* Reading from a stream: a byte sequence and the number of bytes consumed
\* ------------------------------------------------------------------------
Avail(s, pos) == Len(s) - pos

Bytes(s, pos, n) == SubSeq(s, pos + 1, pos + n)

NoChunk(err, pos) == [err |-> err, kind |-> "None", data |-> <<>>, pos |-> pos]

\* the guard of PngChunk::new on the declared length of an IHDR chunk
IhdrLengthBadSkipped(kind, length) == FALSE

IhdrLengthBad(kind, length) == kind = "Ihdr" /\ length # 13

\* PngChunk::new: [err, kind, data, pos], pos the stream position it leaves.
\* A read_exact that meets the end of the stream leaves the stream at its end.
PngChunkNew(s, pos) ==
    IF Avail(s, pos) < 4 THEN NoChunk("Io", Len(s))
    ELSE
    LET length == U32ToNat(BytesU32(Bytes(s, pos, 4))) IN
    IF Avail(s, pos + 4) < 4 THEN NoChunk("Io", Len(s))
    ELSE
    LET kind == KindOfCode(Bytes(s, pos + 4, 4)) IN
    IF kind = "None" THEN NoChunk("UnsupportedTypeCode", pos + 8)
    ELSE IF IhdrLengthBad(kind, length) THEN NoChunk("InvalidIhdrLength", pos + 8)
    ELSE IF Avail(s, pos + 8) < length THEN NoChunk("Io", Len(s))
    ELSE IF Avail(s, pos + 8 + length) < 4 THEN NoChunk("Io", Len(s))
    ELSE [err |-> "Ok", kind |-> kind, data |-> Bytes(s, pos + 8, length),
          pos |-> pos + 8 + length + 4]

\* PngChunk::write: the bytes it writes
ChunkWrite(chunk) ==
    U32Bytes(U32(Len(chunk.data)))
    \o CodeOfKind(chunk.kind)
    \o chunk.data
    \o Crc32Bytes(CodeOfKind(chunk.kind) \o chunk.data)

\* PngChunk::iend
ChunkIend == [kind |-> "Iend", data |-> <<>>]

\* ------------------------------------------------------------------------
\* IhdrData
\* ------------------------------------------------------------------------
MkIhdr(w, h, b, c, z, f, i) ==
    [width |-> w, height |-> h, bit_depth |-> b, color_type |-> c,
     compression |-> z, filter |-> f, interlace |-> i]

\* a decoder that reads color_type before bit_depth
IhdrDecodeSwapped(d) ==
    MkIhdr(BytesU32(SubSeq(d, 1, 4)), BytesU32(SubSeq(d, 5, 8)),
           d[10], d[9], d[11], d[12], d[13])

\* the field reads of TryFrom<&PngChunk> for IhdrData
IhdrDecode(d) ==
    MkIhdr(BytesU32(SubSeq(d, 1, 4)), BytesU32(SubSeq(d, 5, 8)),
           d[9], d[10], d[11], d[12], d[13])

\* TryFrom<&PngChunk> for IhdrData: [err, ihdr]
IhdrFromChunk(chunk) ==
    IF chunk.kind # "Ihdr" THEN [err |-> "NotIhdr", ihdr |-> <<>>]
    ELSE IF Len(chunk.data) < 13 THEN [err |-> "Io", ihdr |-> <<>>]
    ELSE [err |-> "Ok", ihdr |-> <<IhdrDecode(chunk.data)>>]

\* From<IhdrData> for PngChunk
ChunkFromIhdr(ihdr) ==
    [kind |-> "Ihdr",
     data |-> U32Bytes(ihdr.width) \o U32Bytes(ihdr.height)
              \o <<ihdr.bit_depth, ihdr.color_type, ihdr.compression,
                   ihdr.filter, ihdr.interlace>>]

\* write_png: the bytes written for (ihdr, idat)
WritePngBytes(ihdr, idat) ==
    PNG_SIGNATURE \o ChunkWrite(ChunkFromIhdr(ihdr)) \o ChunkWrite(idat)
    \o ChunkWrite(ChunkIend)

\* tests::png_vec
png_vec(ihdr, data, level) ==
    WritePngBytes(ihdr, [kind |-> "Idat", data |-> compress_to_vec_zlib(data, level)])

\* ------------------------------------------------------------------------
\* The closure inflate_png of catpng: one input folded into (saved, buf).
\* saved is <<>> for None and <<ihdr>> for Some(ihdr).
\* ------------------------------------------------------------------------
\* a check that accepts a stream too short to hold a signature
SignatureOkIgnoringShortRead(png) ==
    Len(png) < Len(PNG_SIGNATURE) \/ Bytes(png, 0, Len(PNG_SIGNATURE)) = PNG_SIGNATURE

\* read_exact of 8 bytes succeeds and the bytes are the signature
SignatureOk(png) ==
    Len(png) >= Len(PNG_SIGNATURE) /\ Bytes(png, 0, Len(PNG_SIGNATURE)) = PNG_SIGNATURE

WidthCheckSkipped(saved, ihdr) == FALSE

\* saved.as_ref().is_some_and(|saved| saved.width != ihdr.width)
WidthMismatch(saved, ihdr) == saved # <<>> /\ saved[1].width # ihdr.width

AppendBufFront(buf, bytes) == bytes \o buf

\* buf.append(&mut ...)
AppendBuf(buf, bytes) == buf \o bytes

\* an accumulation that keeps the later input's header
AccumulateIntoLater(saved, ihdr) ==
    IF saved # <<>>
    THEN <<[ihdr EXCEPT !.height = U32AddWrap(saved[1].height, ihdr.height)]>>
    ELSE <<ihdr>>

\* if let Some(ref mut saved) = saved { saved.height += ihdr.height } else { saved = Some(ihdr) }
Accumulate(saved, ihdr) ==
    IF saved # <<>>
    THEN <<[saved[1] EXCEPT !.height = U32AddWrap(saved[1].height, ihdr.height)]>>
    ELSE <<ihdr>>

\* `+=` on u32 panics on overflow when the build has overflow checks
AddPanics(saved, ihdr, checks) ==
    checks /\ saved # <<>> /\ U32AddOverflows(saved[1].height, ihdr.height)

Outcome(err, panic, saved, buf, pos, chunks) ==
    [err |-> err, panic |-> panic, saved |-> saved, buf |-> buf, pos |-> pos,
     chunks |-> chunks]

\* chunks: the results of the PngChunk::new calls made, with their start
Traced(c, start) == c @@ [start |-> start]

inflate_png(saved, buf, png, checks) ==
    IF ~SignatureOk(png)
    THEN Outcome("InvalidSignature", FALSE, saved, buf,
                 IF Len(png) < Len(PNG_SIGNATURE) THEN Len(png) ELSE Len(PNG_SIGNATURE),
                 <<>>)
    ELSE
    LET c1 == PngChunkNew(png, Len(PNG_SIGNATURE))
        t1 == <<Traced(c1, Len(PNG_SIGNATURE))>>
    IN
    IF c1.err # "Ok" THEN Outcome(c1.err, FALSE, saved, buf, c1.pos, t1)
    ELSE
    LET h == IhdrFromChunk(c1) IN
    IF h.err # "Ok" THEN Outcome(h.err, FALSE, saved, buf, c1.pos, t1)
    ELSE
    LET ihdr == h.ihdr[1] IN
    IF WidthMismatch(saved, ihdr)
    THEN Outcome("UnequalWidth", FALSE, saved, buf, c1.pos, t1)
    ELSE
    LET c2 == PngChunkNew(png, c1.pos)
        t2 == t1 \o <<Traced(c2, c1.pos)>>
    IN
    IF c2.err # "Ok" THEN Outcome(c2.err, FALSE, saved, buf, c2.pos, t2)
    ELSE
    LET d == decompress_to_vec_zlib(c2.data) IN
    IF ~d.ok THEN Outcome("Decompress", FALSE, saved, buf, c2.pos, t2)
    ELSE IF AddPanics(saved, ihdr, checks)
    THEN Outcome("Ok", TRUE, saved, AppendBuf(buf, d.data), c2.pos, t2)
    ELSE Outcome("Ok", FALSE, Accumulate(saved, ihdr), AppendBuf(buf, d.data),
                 c2.pos, t2)

\* try_fold stops at the first Err
TryFoldNeverBreaks(err) == FALSE

TryFoldBreaks(err) == err # "Ok"

\* ------------------------------------------------------------------------
\* The inputs of a run: byte streams the program may be given
\* ------------------------------------------------------------------------
\* width 69 / height 25 and 30 are the values of tests::concat_2
hA == MkIhdr(U32(69), U32(25), 0, 0, 0, 0, 0)
hB == MkIhdr(U32(69), U32(30), 16, 6, 0, 0, 1)
hC == MkIhdr(U32(70), U32(30), 8, 2, 0, 0, 0)
hD == MkIhdr(U32(69), <<Half - 1, Half - 1>>, 8, 2, 0, 0, 0)

IhdrSet == {hA, hB, hC, hD}

\* (pixel bytes, level) of the well-formed inputs
PixelSet == {<<<<1, 2, 3>>, 0>>, <<<<4, 5, 6>>, 255>>}

\* the level argument (u8); values above 10 are accepted
Levels == {0, 255}

NoLevel == 0 - 1

\* well-formed inputs, with what they were built from
Good ==
    {[bytes |-> png_vec(h, p[1], p[2]), ihdr |-> h, data |-> p[1], level |-> p[2]] :
        h \in IhdrSet, p \in PixelSet}

RawChunk(length, code, data) ==
    U32Bytes(U32(length)) \o code \o data \o Crc32Bytes(code \o data)

IhdrBytes(h) == ChunkWrite(ChunkFromIhdr(h))

Zeros(n) == [i \in 1..n |-> 0]

tEXt == <<116, 69, 88, 116>>

ZA == compress_to_vec_zlib(<<7, 8>>, 0)

\* malformed and unusual inputs
ShortStream     == SubSeq(PNG_SIGNATURE, 1, 4)
BadSignature    == <<0>> \o Tail(png_vec(hA, <<1, 2, 3>>, 0))
IhdrLen12       == PNG_SIGNATURE \o RawChunk(12, IHDR, Zeros(12))
                   \o RawChunk(Len(ZA), IDAT, ZA)
UnknownTag      == PNG_SIGNATURE \o RawChunk(2, tEXt, <<1, 2>>)
IdatFirst       == PNG_SIGNATURE \o RawChunk(Len(ZA), IDAT, ZA) \o IhdrBytes(hA)
NoSecondChunk   == PNG_SIGNATURE \o IhdrBytes(hA)
TruncatedIdat   == PNG_SIGNATURE \o IhdrBytes(hA) \o U32Bytes(U32(20)) \o IDAT
                   \o <<1, 2, 3>>
CorruptZlib     == PNG_SIGNATURE \o IhdrBytes(hA)
                   \o RawChunk(Len(ZA), IDAT, [ZA EXCEPT ![Len(ZA)] = 0])
SecondIsIend    == PNG_SIGNATURE \o IhdrBytes(hB) \o RawChunk(Len(ZA), IEND, ZA)
SecondIsIhdr    == PNG_SIGNATURE \o IhdrBytes(hA) \o RawChunk(Len(ZA), IHDR, ZA)
SecondIhdrLen12 == PNG_SIGNATURE \o IhdrBytes(hA) \o RawChunk(12, IHDR, Zeros(12))
ZeroCrc         == PNG_SIGNATURE
                   \o U32Bytes(U32(13)) \o IHDR \o ChunkFromIhdr(hA).data \o Zeros(4)
                   \o U32Bytes(U32(Len(ZA))) \o IDAT \o ZA \o Zeros(4)

Odd == {ShortStream, BadSignature, IhdrLen12, UnknownTag, IdatFirst, NoSecondChunk,
        TruncatedIdat, CorruptZlib, SecondIsIend, SecondIsIhdr, SecondIhdrLen12,
        ZeroCrc}

Streams == {g.bytes : g \in Good} \cup Odd

\* a path argument: the file it names, if there is one
Files == {[exists |-> TRUE, bytes |-> s] : s \in Streams}

\* the files main is run on
MainFiles ==
    {[exists |-> TRUE, bytes |-> s] :
        s \in {png_vec(hA, <<1, 2, 3>>, 0), png_vec(hB, <<4, 5, 6>>, 255),
               png_vec(hC, <<1, 2, 3>>, 0), BadSignature, SecondIsIend}}

NoFile == [exists |-> FALSE, bytes |-> <<>>]

SeqsUpTo(S, n) == UNION {[1..m -> S] : m \in 0..n}

\* ------------------------------------------------------------------------
\* State of a run
\* ------------------------------------------------------------------------
VARIABLES
    caller,           \* "main" or "test" (tests::catpng_and_write)
    argv,             \* [out, level, files]: the arguments after the program name
    overflow_checks,  \* whether the build panics on integer overflow
    pc,               \* where the run is
    pngs,             \* the streams handed to catpng, in order
    pos,              \* bytes consumed from each stream
    k,                \* number of inputs the fold has taken
    saved,            \* the fold's Option<IhdrData>
    buf,              \* the fold's Vec<u8>
    decoded,          \* the PngChunk::new results of the last inflate_png
    err,              \* "Ok" or the error the run returned
    errAt,            \* the input the error is scoped to (0: none)
    panicked,         \* "" or the panic message
    result,           \* <<>> or <<[ihdr, idat]>>: what catpng returned
    out_opened,       \* the output was created / truncated
    out_bytes         \* the bytes written to the output

vars == <<caller, argv, overflow_checks, pc, pngs, pos, k, saved, buf, decoded,
          err, errAt, panicked, result, out_opened, out_bytes>>

\* the argument vectors main may be started with
MainArgvs ==
    {[out |-> FALSE, level |-> NoLevel, files |-> <<>>]}
    \cup {[out |-> TRUE, level |-> NoLevel, files |-> fs] :
             fs \in SeqsUpTo({NoFile}, 1)}
    \cup {[out |-> TRUE, level |-> l, files |-> fs] :
             l \in Levels, fs \in SeqsUpTo(MainFiles \cup {NoFile}, MaxInputs)}

\* the (pngs, level) the test helper may be called with
TestArgvs ==
    {[out |-> TRUE, level |-> l, files |-> fs] :
        l \in Levels, fs \in SeqsUpTo(Files, MaxInputs)}

Init ==
    /\ caller \in {"main", "test"}
    /\ argv \in (IF caller = "main" THEN MainArgvs ELSE TestArgvs)
    /\ overflow_checks \in BOOLEAN
    /\ pc = "start"
    /\ pngs = <<>>
    /\ pos = <<>>
    /\ k = 0
    /\ saved = <<>>
    /\ buf = <<>>
    /\ decoded = <<>>
    /\ err = "Ok"
    /\ errAt = 0
    /\ panicked = ""
    /\ result = <<>>
    /\ out_opened = FALSE
    /\ out_bytes = <<>>

\* ------------------------------------------------------------------------
\* main
\* ------------------------------------------------------------------------
\* a match that does not peek for a first input
ArgsValidWithoutPeek(a) == a.out /\ a.level # NoLevel

\* the arm (Some(path), Some(level), Some(_)) of main's match
ArgsValid(a) == a.out /\ a.level # NoLevel /\ Len(a.files) >= 1

\* main: the argument match
MainParseArgs ==
    /\ caller = "main" /\ pc = "start"
    /\ IF ArgsValid(argv)
       THEN pc' = "open_inputs" /\ err' = err
       ELSE pc' = "failed" /\ err' = "InvalidArguments"
    /\ UNCHANGED <<caller, argv, overflow_checks, pngs, pos, k, saved, buf, decoded,
                   errAt, panicked, result, out_opened, out_bytes>>

\* main: one iteration of `for path in args`
MainOpenInput ==
    /\ pc = "open_inputs" /\ Len(pngs) < Len(argv.files)
    /\ LET f == argv.files[Len(pngs) + 1] IN
       IF f.exists
       THEN /\ pngs' = Append(pngs, f.bytes)
            /\ pos' = Append(pos, 0)
            /\ UNCHANGED <<pc, err>>
       ELSE /\ pc' = "failed" /\ err' = "Io"
            /\ UNCHANGED <<pngs, pos>>
    /\ UNCHANGED <<caller, argv, overflow_checks, k, saved, buf, decoded, errAt,
                   panicked, result, out_opened, out_bytes>>

\* main: the call of catpng once every input is open
MainCallCatpng ==
    /\ pc = "open_inputs" /\ Len(pngs) = Len(argv.files)
    /\ pc' = "catpng"
    /\ UNCHANGED <<caller, argv, overflow_checks, pngs, pos, k, saved, buf, decoded,
                   err, errAt, panicked, result, out_opened, out_bytes>>

\* tests::catpng_and_write: a Cursor over each buffer, then catpng
TestCallCatpng ==
    /\ caller = "test" /\ pc = "start"
    /\ pngs' = [i \in 1..Len(argv.files) |-> argv.files[i].bytes]
    /\ pos' = [i \in 1..Len(argv.files) |-> 0]
    /\ pc' = "catpng"
    /\ UNCHANGED <<caller, argv, overflow_checks, k, saved, buf, decoded, err, errAt,
                   panicked, result, out_opened, out_bytes>>

\* ------------------------------------------------------------------------
\* catpng
\* ------------------------------------------------------------------------
\* one step of try_fold: inflate_png on the next input
FoldStep ==
    /\ pc = "catpng" /\ k < Len(pngs)
    /\ LET r == inflate_png(saved, buf, pngs[k + 1], overflow_checks) IN
       /\ pos' = [pos EXCEPT ![k + 1] = r.pos]
       /\ decoded' = r.chunks
       /\ k' = k + 1
       /\ IF r.panic
          THEN /\ pc' = "panic"
               /\ panicked' = "attempt to add with overflow"
               /\ UNCHANGED <<saved, buf, err, errAt>>
          ELSE IF r.err # "Ok"
          THEN /\ pc' = IF TryFoldBreaks(r.err) THEN "failed" ELSE "catpng"
               /\ err' = r.err
               /\ errAt' = k + 1
               /\ UNCHANGED <<saved, buf, panicked>>
          ELSE /\ saved' = r.saved
               /\ buf' = r.buf
               /\ UNCHANGED <<pc, err, errAt, panicked>>
    /\ UNCHANGED <<caller, argv, overflow_checks, pngs, result, out_opened, out_bytes>>

\* the .map closure after the fold: expect("output IHDR") and the recompression
CatpngMap ==
    /\ pc = "catpng" /\ k = Len(pngs)
    /\ IF saved = <<>>
       THEN pc' = "panic" /\ panicked' = "output IHDR" /\ UNCHANGED result
       ELSE /\ result' = <<[ihdr |-> saved[1],
                            idat |-> [kind |-> "Idat",
                                      data |-> compress_to_vec_zlib(buf, argv.level)]]>>
            /\ pc' = IF caller = "main" THEN "open_output" ELSE "write"
            /\ UNCHANGED panicked
    /\ UNCHANGED <<caller, argv, overflow_checks, pngs, pos, k, saved, buf, decoded,
                   err, errAt, out_opened, out_bytes>>

\* main: OpenOptions ... .open(out_path)
MainOpenOutput ==
    /\ pc = "open_output"
    /\ \E ok \in BOOLEAN :
          IF ok
          THEN out_opened' = TRUE /\ out_bytes' = <<>> /\ pc' = "write" /\ err' = err
          ELSE pc' = "failed" /\ err' = "Io" /\ UNCHANGED <<out_opened, out_bytes>>
    /\ UNCHANGED <<caller, argv, overflow_checks, pngs, pos, k, saved, buf, decoded,
                   errAt, panicked, result>>

\* write_png on the result, into the file (main) or the Vec (test)
WritePng ==
    /\ pc = "write"
    /\ out_bytes' = WritePngBytes(result[1].ihdr, result[1].idat)
    /\ pc' = "done"
    /\ UNCHANGED <<caller, argv, overflow_checks, pngs, pos, k, saved, buf, decoded,
                   err, errAt, panicked, result, out_opened>>

Next ==
    \/ MainParseArgs
    \/ MainOpenInput
    \/ MainCallCatpng
    \/ TestCallCatpng
    \/ FoldStep
    \/ CatpngMap
    \/ MainOpenOutput
    \/ WritePng

Spec == Init /\ [][Next]_vars

\* ------------------------------------------------------------------------
\* What an input stream holds, read off its bytes at the fixed offsets of a
\* signature followed by a 13-byte IHDR chunk and a second chunk
\* ------------------------------------------------------------------------
StartsWithSignature(s) == Len(s) >= 8 /\ SubSeq(s, 1, 8) = PNG_SIGNATURE

\* signature, then a chunk tagged IHDR of declared length 13, complete with CRC
HasIhdr(s) ==
    /\ StartsWithSignature(s)
    /\ Len(s) >= 33
    /\ SubSeq(s, 9, 12) = <<0, 0, 0, 13>>
    /\ SubSeq(s, 13, 16) = IHDR

WidthOf(s)  == BytesU32(SubSeq(s, 17, 20))
HeightOf(s) == BytesU32(SubSeq(s, 21, 24))
FieldsOf(s) == SubSeq(s, 25, 29)

SecondTag(s) == SubSeq(s, 38, 41)
SecondLen(s) == U32ToNat(BytesU32(SubSeq(s, 34, 37)))
SecondPayload(s) == SubSeq(s, 42, 41 + SecondLen(s))
SecondEnd(s) == 41 + SecondLen(s) + 4

\* the second chunk is complete and its tag is one of the three known ones
HasSecond(s) ==
    /\ HasIhdr(s)
    /\ Len(s) >= 41
    /\ SecondTag(s) \in {IHDR, IDAT, IEND}
    /\ (SecondTag(s) = IHDR => SecondLen(s) = 13)
    /\ Len(s) >= SecondEnd(s)

Inflates(s) == HasSecond(s) /\ decompress_to_vec_zlib(SecondPayload(s)).ok

Inflated(s) == decompress_to_vec_zlib(SecondPayload(s)).data

RECURSIVE ConcatInflated(_, _)
ConcatInflated(ss, n) ==
    IF n = 0 THEN <<>> ELSE ConcatInflated(ss, n - 1) \o Inflated(ss[n])

RECURSIVE ExactHeightSum(_, _)
ExactHeightSum(ss, n) ==
    IF n = 1 THEN HeightOf(ss[1])
    ELSE ExactAdd(ExactHeightSum(ss, n - 1), HeightOf(ss[n]))

\* every input can be folded: the five other IHDR fields play no part
AllFoldable(ss) ==
    \A i \in 1..Len(ss) : Inflates(ss[i]) /\ WidthOf(ss[i]) = WidthOf(ss[1])

\* catpng was called and has returned, failed or panicked
CatpngReturned == result # <<>> \/ errAt > 0 \/ panicked # ""

OverflowAbort == panicked = "attempt to add with overflow"

\* ------------------------------------------------------------------------
\* Claims
\* ------------------------------------------------------------------------

\* C1: whenever catpng processes N >= 1 inputs of heights h1..hN (any u32
\* values) and a common width w, it returns width = w and height equal to the
\* exact arithmetic sum h1 + ... + hN; the 32-bit height field causes no
\* wraparound and no abort.
C1_HeightIsExactSum ==
    /\ ~OverflowAbort
    /\ result # <<>> =>
          /\ result[1].ihdr.width = WidthOf(pngs[1])
          /\ result[1].ihdr.height = ExactHeightSum(pngs, Len(pngs))

\* C2: in every successful run, inflating the returned IDAT payload gives the
\* concatenation of the inflated second-chunk payloads of the inputs, in
\* input order, at every level.
C2_ScanlineConcatenation ==
    result # <<>> =>
        LET d == decompress_to_vec_zlib(result[1].idat.data)
        IN  /\ result[1].idat.kind = "Idat"
            /\ d.ok
            /\ d.data = ConcatInflated(pngs, Len(pngs))

\* a successful run over two inputs with different, non-empty pixel bytes, at
\* a level above 10
C2_Witness ==
    /\ result # <<>>
    /\ Len(pngs) = 2
    /\ Inflated(pngs[1]) # <<>>
    /\ Inflated(pngs[2]) # <<>>
    /\ Inflated(pngs[1]) # Inflated(pngs[2])
    /\ argv.level = 255

\* C3: a PNG written by write_png from an IhdrData and data compressed at
\* level L, run alone through catpng at level L and written by write_png,
\* comes out byte for byte.
C3_IdentityRoundTrip ==
    (/\ pc = "done"
     /\ Len(pngs) = 1
     /\ \E g \in Good : g.bytes = pngs[1] /\ g.level = argv.level)
    => out_bytes = pngs[1]

\* the round trip of the header hB (bit_depth 16, color_type 6, interlace 1)
\* with pixel bytes 4, 5, 6 at level 255
C3_Witness ==
    /\ pc = "done"
    /\ Len(pngs) = 1
    /\ pngs[1] = png_vec(hB, <<4, 5, 6>>, 255)
    /\ argv.level = 255
    /\ out_bytes = pngs[1]

\* C4: when the fold, holding an accumulated width, takes an input whose IHDR
\* width differs from it, catpng fails with UnequalWidth for that input and
\* returns no result; the check is made before the second chunk is decoded:
\* the stream is left right after the IHDR chunk, one chunk was decoded, and
\* the buffer and the accumulated IHDR are as they were.
C4_UnequalWidth ==
    [][(/\ pc = "catpng"
        /\ k < Len(pngs)
        /\ saved # <<>>
        /\ HasIhdr(pngs[k + 1])
        /\ WidthOf(pngs[k + 1]) # saved[1].width)
       => (/\ pc' = "failed"
           /\ err' = "UnequalWidth"
           /\ errAt' = k + 1
           /\ result' = <<>>
           /\ pos'[k + 1] = 33
           /\ Len(decoded') = 1
           /\ buf' = buf
           /\ saved' = saved)]_vars

\* a run that failed with UnequalWidth at its second input, whose second
\* chunk would have inflated
C4_Witness ==
    /\ pc = "failed"
    /\ err = "UnequalWidth"
    /\ errAt = 2
    /\ Inflates(pngs[2])
    /\ result = <<>>

\* C5 (as stated): whenever any input stream does not start with the 8-byte
\* signature, the run yields InvalidSignature and no output, regardless of
\* the contents and position of the other inputs.
C5_AnyBadSignature ==
    (/\ CatpngReturned
     /\ \E i \in 1..Len(pngs) : ~StartsWithSignature(pngs[i]))
    => (err = "InvalidSignature" /\ result = <<>> /\ ~out_opened)

FirstBadSignature ==
    CHOOSE i \in 1..Len(pngs) :
        /\ ~StartsWithSignature(pngs[i])
        /\ \A j \in 1..(i - 1) : StartsWithSignature(pngs[j])

\* C5 (amended): whenever the fold reaches an input stream that does not start
\* with the 8-byte signature (a stream shorter than 8 bytes included), the run
\* yields InvalidSignature scoped to that input, whatever the later inputs
\* hold; when an earlier input stops the run first, the run ends with that
\* input's failure.  In both cases there is no result and no output.
C5_FirstBadSignature ==
    (/\ CatpngReturned
     /\ \E i \in 1..Len(pngs) : ~StartsWithSignature(pngs[i]))
    => (/\ result = <<>>
        /\ ~out_opened
        /\ out_bytes = <<>>
        /\ k <= FirstBadSignature
        /\ k = FirstBadSignature => (err = "InvalidSignature" /\ errAt = k)
        /\ k < FirstBadSignature => ((err # "Ok" /\ errAt = k) \/ panicked # ""))

\* a run that reached, as its second input, a stream shorter than a
\* signature
C5_Witness ==
    /\ pc = "failed"
    /\ Len(pngs) = 2
    /\ pngs[2] = ShortStream
    /\ k = 2
    /\ err = "InvalidSignature"

\* C6: when PngChunk::new meets the tag IHDR with a declared length other than
\* 13 it returns InvalidIhdrLength with the stream 8 bytes past the start of
\* the chunk (no payload or CRC byte read) and no IHDR field is decoded; every
\* chunk of kind Ihdr the decoder returns has 13 payload bytes, and the IHDR
\* chunk written from an IhdrData declares and carries 13 bytes.
C6_IhdrLengthGuard ==
    /\ \A n \in 1..Len(decoded) :
          LET c == decoded[n]
              s == pngs[k]
              tagged == /\ Len(s) >= c.start + 8
                        /\ SubSeq(s, c.start + 5, c.start + 8) = IHDR
                        /\ SubSeq(s, c.start + 1, c.start + 4) # <<0, 0, 0, 13>>
          IN  /\ (c.err = "Ok" /\ c.kind = "Ihdr") => Len(c.data) = 13
              /\ tagged <=> c.err = "InvalidIhdrLength"
              /\ tagged => /\ c.pos = c.start + 8
                           /\ pos[k] = c.start + 8
                           /\ err = "InvalidIhdrLength"
                           /\ errAt = k
                           /\ result = <<>>
                           /\ (k = 1 => saved = <<>>)
    /\ pc = "done" =>
          /\ SubSeq(out_bytes, 9, 16) = <<0, 0, 0, 13>> \o IHDR
          /\ SubSeq(out_bytes, 17, 29) = ChunkFromIhdr(result[1].ihdr).data
          /\ SubSeq(out_bytes, 38, 41) = IDAT

\* a run whose first input declares an IHDR chunk of length 12
C6_Witness ==
    /\ pc = "failed"
    /\ k = 1
    /\ pngs[1] = IhdrLen12
    /\ err = "InvalidIhdrLength"
    /\ pos[1] = 16

\* C7 (as stated): bytes are inflated and appended only from a second chunk of
\* kind Idat; an input whose second chunk has kind Ihdr or Iend never
\* contributes bytes or height to a successful result.
C7_OnlyIdatContributes ==
    result # <<>> => \A i \in 1..Len(pngs) : SecondTag(pngs[i]) = IDAT

\* C7 (amended): the second chunk read after the signature is taken as the
\* IDAT whatever its kind.  An input is folded only if its second chunk
\* decodes (tag IDAT, IEND, or IHDR with declared length 13) and its payload
\* inflates, and then exactly the inflated payload is appended to the buffer
\* and the stream is left right after that chunk; and every such input of a
\* matching width is folded (unless the height addition aborts), so an input
\* whose second chunk has kind Ihdr or Iend does contribute its bytes and its
\* height to a successful result.
C7_SecondChunkOfAnyKind ==
    [][(pc = "catpng" /\ k < Len(pngs)) =>
        LET s == pngs[k + 1]
            folded == pc' = "catpng" /\ err' = "Ok" /\ panicked' = ""
        IN  /\ folded =>
                 /\ Inflates(s)
                 /\ buf' = buf \o Inflated(s)
                 /\ pos'[k + 1] = SecondEnd(s)
                 /\ Len(decoded') = 2
                 /\ decoded'[2].kind = KindOfCode(SecondTag(s))
                 /\ saved' # <<>>
                 /\ saved # <<>> =>
                        saved'[1].height = U32AddWrap(saved[1].height, HeightOf(s))
            /\ (/\ Inflates(s)
                /\ saved # <<>> => WidthOf(s) = saved[1].width
                /\ ~(/\ overflow_checks
                     /\ saved # <<>>
                     /\ U32AddOverflows(saved[1].height, HeightOf(s))))
               => folded]_vars

\* a successful run over two inputs whose second chunks are tagged IEND and
\* IHDR, both of which gave their bytes
C7_Witness ==
    /\ result # <<>>
    /\ Len(pngs) = 2
    /\ SecondTag(pngs[1]) = IEND
    /\ SecondTag(pngs[2]) = IHDR
    /\ buf = Inflated(pngs[1]) \o Inflated(pngs[2])
    /\ buf # <<>>

\* C8: inputs are taken strictly in input order and nothing is read from an
\* input after the one that failed; the output is created and written only
\* after every input was folded, so a run that ends in a per-input error
\* leaves the output untouched.
C8_FailFast ==
    /\ k <= Len(pngs)
    /\ \A j \in 1..Len(pos) : j > k => pos[j] = 0
    /\ errAt > 0 =>
          /\ pc = "failed"
          /\ k = errAt
          /\ \A j \in 1..Len(pos) : j > errAt => pos[j] = 0
          /\ result = <<>>
          /\ ~out_opened
          /\ out_bytes = <<>>
    /\ (out_opened \/ out_bytes # <<>>) =>
          /\ result # <<>>
          /\ k = Len(pngs)
          /\ errAt = 0
          /\ err = "Ok"

\* a run that failed at the first of two inputs and left the second, a
\* well-formed PNG, unread
C8_Witness ==
    /\ pc = "failed"
    /\ errAt = 1
    /\ Len(pngs) = 2
    /\ AllFoldable(<<pngs[2]>>)
    /\ pos[2] = 0
    /\ ~out_opened

\* C9: the accumulated width, bit_depth, color_type, compression, filter and
\* interlace are at all times those of the first input, so are those of the
\* result, and no value of the five fields in a later input causes an error:
\* a run over one or more inputs that all hold a signature, an IHDR of the
\* first input's width and a second chunk that inflates succeeds (unless the
\* height addition aborts).
C9_OtherFieldsFromFirst ==
    /\ saved # <<>> =>
          /\ SubSeq(ChunkFromIhdr(saved[1]).data, 9, 13) = FieldsOf(pngs[1])
          /\ saved[1].width = WidthOf(pngs[1])
    /\ result # <<>> =>
          /\ result[1].ihdr.bit_depth = FieldsOf(pngs[1])[1]
          /\ result[1].ihdr.color_type = FieldsOf(pngs[1])[2]
          /\ result[1].ihdr.compression = FieldsOf(pngs[1])[3]
          /\ result[1].ihdr.filter = FieldsOf(pngs[1])[4]
          /\ result[1].ihdr.interlace = FieldsOf(pngs[1])[5]
    /\ (CatpngReturned /\ Len(pngs) >= 1 /\ AllFoldable(pngs) /\ ~OverflowAbort)
          => result # <<>>

\* a successful run whose second input differs from the first in the five
\* fields
C9_Witness ==
    /\ result # <<>>
    /\ Len(pngs) = 2
    /\ FieldsOf(pngs[2]) # FieldsOf(pngs[1])
    /\ FieldsOf(pngs[2])[1] # FieldsOf(pngs[1])[1]

\* C10: main calls catpng with at least one input; a fold over at least one
\* input that completes without error has set the accumulated IHDR, so
\* expect("output IHDR") never fails in a run of main; with zero inputs
\* catpng returns no successful result.
C10_OutputIhdrIsSet ==
    /\ caller = "main" => panicked # "output IHDR"
    /\ (caller = "main" /\ pc = "catpng") => Len(pngs) >= 1
    /\ (pc = "catpng" /\ k = Len(pngs) /\ Len(pngs) >= 1 /\ err = "Ok")
          => saved # <<>>
    /\ panicked = "output IHDR" => Len(pngs) = 0
    /\ Len(argv.files) = 0 => result = <<>>

\* main at the end of the fold, about to evaluate the expect
C10_Witness ==
    /\ caller = "main"
    /\ pc = "catpng"
    /\ k = Len(pngs)
    /\ saved # <<>>

====
